---- MODULE Spec2Model ----
(***************************************************************************)
(* next-super-layout (src/src/layout.tsx): createLayout, combineLayouts,   *)
(* the wrapped fetch functions, the render dispatch (getLayout), useData   *)
(* and LayoutProvider, as one page's life: the page module builds its      *)
(* layout, the host calls the page's fetch function, the host renders the  *)
(* page, components of the page call useData.                              *)
(***************************************************************************)
EXTENDS Integers, Sequences, FiniteSets, TLC

VARIABLES
    pc,         \* "module" | "ready" | "failed" | "fetching" | "fetched" | "rendered"
    given,      \* the layouts the last combineLayouts call was given
    layout,     \* the Layout object the page module exports (NoLayout before)
    thrown,     \* the error the last operation threw or rejected with (NoError)
    base,       \* what the user's own fetch function resolved to
    calls,      \* getData invocations in flight: path -> "pending" or the value resolved
    order,      \* the paths of the getData invocations, in the order they resolved
    fetched,    \* what options.getData?.(ctx) resolved to inside the wrapped fetch
    result,     \* what the page's fetch function resolved to
    pageProps,  \* the props the host hands to the page
    isWrapped,  \* whether the page rendered is the component wrapPage returned
    hasProvider,\* LayoutProviderContext where the page is rendered
    currCtx,    \* LayoutDataContext where RenderLayout runs
    tree,       \* what the host's render produced
    read        \* the last useData() call and its outcome

vars == <<pc, given, layout, thrown, base, calls, order, fetched, result, pageProps, isWrapped, hasProvider, currCtx, tree, read>>

(***************************************************************************)
(* Bounds of the model.                                                    *)
(***************************************************************************)
\* The longest list of layouts handed to combineLayouts.
MaxLayouts == 2

(***************************************************************************)
(* JavaScript values.  Every value is a record with a tag t, so that any   *)
(* two values can be compared.                                             *)
(***************************************************************************)
Undefined == [t |-> "undefined"]
Null == [t |-> "null"]
Num(n) == [t |-> "number", v |-> n]
Obj(m) == [t |-> "object", m |-> m]
EmptyObj == Obj(<<>>)

\* v == null
Nullish(v) == v.t \in {"undefined", "null"}
\* a ?? b
Coalesce(a, b) == IF Nullish(a) THEN b ELSE a
\* o[k] on a value that is not nullish: an own entry, else undefined
Get(o, k) == IF o.t = "object" /\ k \in DOMAIN o.m THEN o.m[k] ELSE Undefined
\* o?.[k]
OptGet(o, k) == IF Nullish(o) THEN Undefined ELSE Get(o, k)
\* the entries {...v} copies: the own entries of an object, none of
\* undefined, null or a number
Spread(v) == IF v.t = "object" THEN v.m ELSE <<>>
\* {...a, ...b} on entry maps: the later entry wins
Merge(a, b) == b @@ a
\* const { [k]: _, ...rest } = o
Rest(o, k) == Obj([x \in DOMAIN Spread(o) \ {k} |-> Spread(o)[x]])

(***************************************************************************)
(* Strings.                                                                *)
(***************************************************************************)
\* s.startsWith(p)
StartsWith(s, p) == Len(s) >= Len(p) /\ SubSeq(s, 1, Len(p)) = p

RECURSIVE Join(_, _)
\* names.join(sep)
Join(names, sep) ==
    IF Len(names) = 0 THEN ""
    ELSE IF Len(names) = 1 THEN names[1]
    ELSE names[1] \o sep \o Join(Tail(names), sep)

(***************************************************************************)
(* Errors.  createError (src/exceptions) packages a code with the fields   *)
(* it is given.                                                            *)
(***************************************************************************)
NoError == [t |-> "none"]
CreateError(code, fields) == [t |-> "error", code |-> code, fields |-> fields]
\* data[layoutKey] on undefined or null data
TypeError == [t |-> "error", code |-> "TypeError", fields |-> <<>>]
\* a rejection of a user's function
UserRejection == [t |-> "error", code |-> "UserRejection", fields |-> <<>>]

(***************************************************************************)
(* createLayout.  The functions of the options are tags: "none" (absent),  *)
(* "user" (the application's function) or "combined" (the function         *)
(* combineLayouts builds over options.layouts).                            *)
(***************************************************************************)
NoLayout == [t |-> "none"]

\* '__layout:' + options.name
LayoutKeyOf(name) == "__layout:" \o name

\* options.name.startsWith('__combined')
IsCombinedName(name) == StartsWith(name, "__combined")

createLayout(options) ==
    [t |-> "layout",
     options |-> options,
     layoutKey |-> LayoutKeyOf(options.name),
     isCombinedLayout |-> IsCombinedName(options.name),
     useData |-> TRUE]

getOptionsFromLayout(l) == l.options

(***************************************************************************)
(* combineLayouts.                                                         *)
(***************************************************************************)
\* layouts.map((l) => getOptionsFromLayout(l).name)
LayoutNames(layouts) == [i \in 1..Len(layouts) |-> getOptionsFromLayout(layouts[i]).name]

\* new Set(layoutNames).size !== layoutNames.length
HasNameConflict(names) == Cardinality({names[i] : i \in 1..Len(names)}) # Len(names)

\* The accumulator of the reduce is the object literal {}: a name it has no
\* own entry for is looked up on Object.prototype.
ObjectPrototypeKeys ==
    {"constructor", "__proto__", "hasOwnProperty", "isPrototypeOf",
     "propertyIsEnumerable", "toLocaleString", "toString", "valueOf"}
\* what x + 1 gives for an x that is a function, an object or a string
Concatenated == [t |-> "string"]

\* a[b.name] = (a[b.name] || 0) + b.count, on a = [keys, val]: the own keys
\* in insertion order and their values
CountName(a, name) ==
    LET cur == IF name \in DOMAIN a.val THEN a.val[name]
               ELSE IF name \in ObjectPrototypeKeys THEN [t |-> "function"]
               ELSE Undefined
        new == IF cur.t = "number" THEN Num(cur.v + 1)
               ELSE IF cur.t = "undefined" THEN Num(1)
               ELSE Concatenated
    IN  IF name = "__proto__" THEN a   \* the setter ignores a value that is no object
        ELSE [keys |-> IF name \in DOMAIN a.val THEN a.keys ELSE Append(a.keys, name),
              val |-> (name :> new) @@ a.val]

RECURSIVE CountNames(_, _)
\* layoutNames.map(...).reduce(..., {})
CountNames(a, names) ==
    IF Len(names) = 0 THEN a ELSE CountNames(CountName(a, names[1]), Tail(names))

\* Object.keys(uniq).filter((a) => uniq[a] > 1)
DuplicateNames(names) ==
    LET uniq == CountNames([keys |-> <<>>, val |-> <<>>], names)
    IN  SelectSeq(uniq.keys, LAMBDA k : uniq.val[k].t = "number" /\ uniq.val[k].v > 1)

ConflictPrefix ==
    "Layouts must have unique name values to be combinable. Conflicting name(s) found: "

\* '__combined(' + layoutNames.join(';') + ')'
CombinedName(names) == "__combined(" \o Join(names, ";") \o ")"

\* combineLayouts(...layouts): the error it throws, or the layout it returns
combineLayouts(layouts) ==
    LET layoutNames == LayoutNames(layouts) IN
    IF HasNameConflict(layoutNames)
    THEN CreateError("COMBINED_LAYOUT_NAME_CONFLICT",
                     [errorContext |-> "combineLayouts",
                      message |-> ConflictPrefix \o Join(DuplicateNames(layoutNames), ", ")])
    ELSE [createLayout([name |-> CombinedName(layoutNames),
                        getLayout |-> "combined",
                        getData |-> "combined",
                        layouts |-> layouts])
          EXCEPT !.useData = FALSE]

(***************************************************************************)
(* The application: its layouts, and what their getData can resolve to.    *)
(***************************************************************************)
UserOptions ==
    {[name |-> "a", getLayout |-> "user", getData |-> "user", layouts |-> <<>>],
     [name |-> "b", getLayout |-> "user", getData |-> "none", layouts |-> <<>>],
     [name |-> "constructor", getLayout |-> "none", getData |-> "user", layouts |-> <<>>],
     [name |-> "__combinedX", getLayout |-> "user", getData |-> "user", layouts |-> <<>>]}

UserLayouts == {createLayout(o) : o \in UserOptions}

\* The JSON values a layout's getData resolves to: null or an object, and
\* for layout a also a number and an object that has an entry under the
\* layout's own key.
FetchValues(l) ==
    IF l.options.name = "a"
    THEN {Null, Num(1), Obj((l.layoutKey :> Num(2)) @@ ("x" :> Num(1)))}
    ELSE {Null, Obj("v" :> Num(1))}

\* the lists combineLayouts is called with
LayoutLists == UNION {[1..n -> UserLayouts] : n \in 1..MaxLayouts}

IsFlat(l) == \A i \in 1..Len(l.options.layouts) : l.options.layouts[i].options.getData # "combined"

(***************************************************************************)
(* getData.  One invocation of a user's getData is named by its path: the  *)
(* positions that lead from the page's layout down to the constituent.     *)
(***************************************************************************)
Pending == [t |-> "pending"]
Rejected == [t |-> "rejected"]
NoValue == [t |-> "none"]

RECURSIVE GetDataPaths(_, _)
\* the user getData invocations that calling l's getData starts
GetDataPaths(l, path) ==
    IF l.options.getData = "user" THEN {path}
    ELSE IF l.options.getData = "none" THEN {}
    ELSE UNION {GetDataPaths(l.options.layouts[i], Append(path, i)) :
                    i \in 1..Len(l.options.layouts)}

RECURSIVE LayoutAt(_, _)
LayoutAt(l, path) ==
    IF Len(path) = 0 THEN l ELSE LayoutAt(l.options.layouts[path[1]], Tail(path))

RECURSIVE MergeAll(_)
\* Object.assign({}, ...objects)
MergeAll(objects) ==
    IF Len(objects) = 0 THEN <<>>
    ELSE Merge(Spread(objects[1]), MergeAll(Tail(objects)))

RECURSIVE DataStatus(_, _, _)
\* DataStatus with every constituent's rejection caught: the composite waits
\* for the others and resolves
CaughtDataStatus(l, path, c) ==
    IF l.options.getData = "none" THEN "resolved"
    ELSE IF l.options.getData = "user"
    THEN (IF c[path] = Pending THEN "pending"
          ELSE IF c[path] = Rejected THEN "rejected" ELSE "resolved")
    ELSE IF \E i \in 1..Len(l.options.layouts) :
                DataStatus(l.options.layouts[i], Append(path, i), c) = "pending"
    THEN "pending" ELSE "resolved"

\* the promise l's getData?.(ctx) gives: "resolved", "rejected" or "pending".
\* Promise.all rejects with the first rejection and resolves once all have.
DataStatus(l, path, c) ==
    IF l.options.getData = "none" THEN "resolved"
    ELSE IF l.options.getData = "user"
    THEN (IF c[path] = Pending THEN "pending"
          ELSE IF c[path] = Rejected THEN "rejected" ELSE "resolved")
    ELSE LET st == [i \in 1..Len(l.options.layouts) |->
                        DataStatus(l.options.layouts[i], Append(path, i), c)]
         IN  IF \E i \in DOMAIN st : st[i] = "rejected" THEN "rejected"
             ELSE IF \E i \in DOMAIN st : st[i] = "pending" THEN "pending"
             ELSE "resolved"

RECURSIVE DataValue(_, _, _, _)
\* DataValue with the constituents' results taken in the order in which they
\* resolved: the k-th constituent that has a getData is given the result of
\* the k-th of them to resolve
CompletionOrderDataValue(l, path, c, ord) ==
    IF l.options.getData = "none" THEN Undefined
    ELSE IF l.options.getData = "user" THEN c[path]
    ELSE LET layouts == l.options.layouts
             mine == SelectSeq(ord, LAMBDA p : Len(p) = Len(path) + 1
                                               /\ SubSeq(p, 1, Len(path)) = path)
             rank(i) == Cardinality({j \in 1..i : Append(path, j) \in DOMAIN c})
             value(i) == IF Append(path, i) \in DOMAIN c /\ rank(i) <= Len(mine)
                         THEN c[mine[rank(i)]]
                         ELSE DataValue(layouts[i], Append(path, i), c, ord)
             results == [i \in 1..Len(layouts) |->
                            Obj(LayoutKeyOf(getOptionsFromLayout(layouts[i]).name) :>
                                Coalesce(value(i), Null))]
         IN  Obj(MergeAll(results))

\* what l's getData?.(ctx) resolves to, once resolved.  c holds what each
\* invocation resolved to, ord the order in which they did.
DataValue(l, path, c, ord) ==
    IF l.options.getData = "none" THEN Undefined
    ELSE IF l.options.getData = "user" THEN c[path]
    ELSE LET layouts == l.options.layouts
             results == [i \in 1..Len(layouts) |->
                            Obj(LayoutKeyOf(getOptionsFromLayout(layouts[i]).name) :>
                                Coalesce(DataValue(layouts[i], Append(path, i), c, ord), Null))]
         IN  Obj(MergeAll(SelectSeq(results, LAMBDA r : TRUE)))

(***************************************************************************)
(* wrapGetStaticProps, wrapGetServerSideProps.                             *)
(***************************************************************************)
\* async function defaultGetProps() { return { props: {} } }
defaultGetProps == Obj("props" :> EmptyObj)

\* layoutStaticProps?.[layoutKey] ?? layoutStaticProps ?? null
LayoutEntry(l, layoutStaticProps) ==
    Coalesce(Coalesce(OptGet(layoutStaticProps, l.layoutKey), layoutStaticProps), Null)

\* the object the function returned by wrapGetStaticProps resolves to, from
\* what the wrapped function and options.getData resolved to
wrapGetStaticProps(l, wrappedResult, layoutStaticProps) ==
    LET staticProps == Coalesce(wrappedResult, EmptyObj) IN
    Obj(Merge(Spread(staticProps),
              "props" :> Obj(Merge(Spread(Coalesce(Get(staticProps, "props"), EmptyObj)),
                                   l.layoutKey :> LayoutEntry(l, layoutStaticProps)))))

wrapGetServerSideProps(l, wrappedResult, layoutStaticProps) ==
    LET serverSideProps == Coalesce(wrappedResult, EmptyObj) IN
    Obj(Merge(Spread(serverSideProps),
              "props" :> Obj(Merge(Spread(Coalesce(Get(serverSideProps, "props"), EmptyObj)),
                                   l.layoutKey :> LayoutEntry(l, layoutStaticProps)))))

\* what the user's own fetch function resolves to
BaseResults ==
    {Undefined,
     defaultGetProps,
     Obj("revalidate" :> Num(60)),
     Obj(("props" :> Obj("title" :> Num(7))) @@ ("revalidate" :> Num(60)))}

(***************************************************************************)
(* Rendering.  A React element is a record: "element" is <Component .../>  *)
(* not yet rendered, "wrapper" what a user's getLayout builds around its   *)
(* page argument, "provider" a LayoutDataContext.Provider, "page" the      *)
(* rendered page.  Fragments add nothing and are left out.                 *)
(***************************************************************************)
ComponentElement(props) == [t |-> "element", props |-> props]

IsError(x) == x.t = "error"

\* a user's getLayout(page, data): its own markup around page
UserGetLayout(name, page, data) == [t |-> "wrapper", name |-> name, data |-> data, child |-> page]

RECURSIVE GetLayout(_, _, _)
RECURSIVE ReduceRight(_, _, _, _)
\* ReduceRight as layouts.reduce: the constituents taken first to last
ReduceLeft(layouts, i, element, data) ==
    IF i = 0 \/ IsError(element) THEN element
    ELSE LET l == layouts[Len(layouts) - i + 1]
             layoutOptions == getOptionsFromLayout(l)
             layoutKey == LayoutKeyOf(layoutOptions.name)
             next == IF layoutOptions.getLayout = "none" THEN element
                     ELSE IF Nullish(data) THEN TypeError
                     ELSE GetLayout(l, element, Get(data, layoutKey))
         IN  ReduceRight(layouts, i - 1, next, data)

\* layouts.reduceRight((element, l) => ..., <>{page}</>), from position i down
ReduceRight(layouts, i, element, data) ==
    IF i = 0 \/ IsError(element) THEN element
    ELSE LET layoutOptions == getOptionsFromLayout(layouts[i])
             layoutKey == LayoutKeyOf(layoutOptions.name)
             next == IF layoutOptions.getLayout = "none" THEN element
                     ELSE IF Nullish(data) THEN TypeError
                     ELSE GetLayout(layouts[i], element, Get(data, layoutKey))
         IN  ReduceRight(layouts, i - 1, next, data)

\* options.getLayout(page, data), for a layout that has one
GetLayout(l, page, data) ==
    IF l.options.getLayout = "user" THEN UserGetLayout(l.options.name, page, data)
    ELSE ReduceRight(l.options.layouts, Len(l.options.layouts), page, data)

\* the context value the render dispatch publishes
DispatchContext(l, curr, layoutProps) ==
    IF l.isCombinedLayout
    THEN Merge(curr, Spread(layoutProps))
    ELSE Merge(curr, l.layoutKey :> layoutProps)

\* getLayout(Component, pageProps), the function wrapPage attaches
RenderDispatch(l, props, curr) ==
    LET layoutProps == Get(props, l.layoutKey)
        rest == Rest(props, l.layoutKey)
        ctx == DispatchContext(l, curr, layoutProps)
        inner == IF l.options.getLayout # "none"
                 THEN GetLayout(l, ComponentElement(rest), layoutProps)
                 ELSE ComponentElement(rest)
    IN  IF IsError(inner) THEN inner
        ELSE [t |-> "provider", value |-> ctx, child |-> inner]

\* WrappedPage without its check of LayoutProviderContext
UncheckedWrappedPage(flag, props) == [t |-> "page", props |-> props]

\* the component wrapPage returns, rendered where LayoutProviderContext is flag
WrappedPage(flag, props) ==
    IF ~flag
    THEN CreateError("LAYOUT_PROVIDER_NOT_IMPLEMENTED", [errorContext |-> "wrapPage"])
    ELSE [t |-> "page", props |-> props]

RECURSIVE RenderTree(_, _)
\* React renders the elements of a tree; an error thrown below aborts it
RenderTree(e, flag) ==
    IF e.t = "element" THEN WrappedPage(flag, e.props)
    ELSE IF e.t \in {"error", "page"} THEN e
    ELSE LET child == RenderTree(e.child, flag)
         IN  IF IsError(child) THEN child ELSE [e EXCEPT !.child = child]

\* <LayoutProvider Component={wrapPage(Page)} pageProps={props} />
LayoutProvider(l, props, curr) == RenderTree(RenderDispatch(l, props, curr), TRUE)

RECURSIVE PageContext(_, _)
\* LayoutDataContext as the page and its descendants see it
PageContext(e, curr) ==
    IF e.t = "provider" THEN PageContext(e.child, e.value)
    ELSE IF e.t = "wrapper" THEN PageContext(e.child, curr)
    ELSE curr

RECURSIVE Wrappers(_)
\* the user wrappers of a tree, outermost first
Wrappers(e) ==
    IF e.t = "wrapper" THEN <<[name |-> e.name, data |-> e.data]>> \o Wrappers(e.child)
    ELSE IF e.t = "provider" THEN Wrappers(e.child)
    ELSE <<>>

\* LayoutDataContext where the host renders LayoutProvider: the default {},
\* or what an enclosing provider published
EnclosingContexts == {<<>>, ("__layout:outer" :> Num(5))}

Pathnames == {"/", "/some/path"}

\* useData without its check of ctx[layoutKey]
UncheckedUseData(l, ctx, pathname) == Get(Obj(ctx), l.layoutKey)

\* l.useData() where LayoutDataContext is ctx and the router is at pathname
useData(l, ctx, pathname) ==
    IF Nullish(Get(Obj(ctx), l.layoutKey))
    THEN CreateError("DATA_UNAVAILABLE",
                     [errorContext |-> "useData", location |-> pathname,
                      layoutName |-> l.options.name])
    ELSE Get(Obj(ctx), l.layoutKey)

(***************************************************************************)
(* The page's life.                                                        *)
(***************************************************************************)
Init ==
    /\ pc = "module"
    /\ given = <<>>
    /\ layout = NoLayout
    /\ thrown = NoError
    /\ base = NoValue
    /\ calls = <<>>
    /\ order = <<>>
    /\ fetched = NoValue
    /\ result = NoValue
    /\ pageProps = NoValue
    /\ isWrapped = FALSE
    /\ hasProvider = FALSE
    /\ currCtx = <<>>
    /\ tree = NoValue
    /\ read = NoValue

\* The page module uses one of the application's layouts as it is.
UseLayout ==
    /\ pc = "module"
    /\ \E l \in UserLayouts : layout' = l
    /\ pc' = "ready"
    /\ UNCHANGED <<given, thrown, base, calls, order, fetched, result, pageProps, isWrapped, hasProvider, currCtx, tree, read>>

\* The page module calls combineLayouts on a list of them.
CombineLayouts ==
    /\ pc = "module"
    /\ \E ls \in LayoutLists :
          LET r == combineLayouts(ls) IN
          /\ given' = ls
          /\ IF IsError(r)
             THEN thrown' = r /\ pc' = "failed" /\ UNCHANGED layout
             ELSE layout' = r /\ pc' = "ready" /\ UNCHANGED thrown
    /\ UNCHANGED <<base, calls, order, fetched, result, pageProps, isWrapped, hasProvider, currCtx, tree, read>>

\* The page module calls combineLayouts on a composite and one more layout
\* (composites are nested one level deep).
NestLayouts ==
    /\ pc = "ready"
    /\ layout.options.getData = "combined"
    /\ IsFlat(layout)
    /\ \E l \in UserLayouts :
          LET r == combineLayouts(<<layout, l>>) IN
          /\ given' = <<layout, l>>
          /\ IF IsError(r)
             THEN thrown' = r /\ pc' = "failed" /\ UNCHANGED layout
             ELSE layout' = r /\ pc' = "ready" /\ UNCHANGED thrown
    /\ UNCHANGED <<base, calls, order, fetched, result, pageProps, isWrapped, hasProvider, currCtx, tree, read>>

\* The host calls the page's fetch function, which the page module built
\* with wrapGetStaticProps or wrapGetServerSideProps: it awaits the wrapped
\* function.
CallWrappedFetch ==
    /\ pc = "ready"
    /\ pc' = "awaitBase"
    /\ UNCHANGED <<given, layout, thrown, base, calls, order, fetched, result, pageProps, isWrapped, hasProvider, currCtx, tree, read>>

\* What follows once the promise of options.getData?.(ctx) has settled or
\* not, given what the wrapped function resolved to, the invocations c and
\* their order ord.
Continue(b, c, ord) ==
    LET st == DataStatus(layout, <<>>, c) IN
    /\ calls' = c
    /\ order' = ord
    /\ IF st = "resolved"
       THEN /\ fetched' = DataValue(layout, <<>>, c, ord)
            /\ \/ result' = wrapGetStaticProps(layout, b, fetched')
               \/ result' = wrapGetServerSideProps(layout, b, fetched')
            /\ pc' = "fetched"
            /\ UNCHANGED thrown
       ELSE IF st = "rejected"
       THEN /\ thrown' = UserRejection
            /\ pc' = "failed"
            /\ UNCHANGED <<fetched, result>>
       ELSE /\ pc' = "fetching"
            /\ UNCHANGED <<thrown, fetched, result>>

\* The wrapped function resolves; options.getData?.(ctx) is called, which
\* starts every user getData below it.
BaseResolves ==
    /\ pc = "awaitBase"
    /\ \E b \in BaseResults :
          /\ base' = b
          /\ Continue(b, [p \in GetDataPaths(layout, <<>>) |-> Pending], <<>>)
    /\ UNCHANGED <<given, layout, pageProps, isWrapped, hasProvider, currCtx, tree, read>>

\* The wrapped function rejects, and the await throws.
BaseRejects ==
    /\ pc = "awaitBase"
    /\ thrown' = UserRejection
    /\ pc' = "failed"
    /\ UNCHANGED <<given, layout, base, calls, order, fetched, result, pageProps, isWrapped, hasProvider, currCtx, tree, read>>

\* One user getData resolves.
ResolveGetData ==
    /\ pc = "fetching"
    /\ \E p \in DOMAIN calls :
          /\ calls[p] = Pending
          /\ \E v \in FetchValues(LayoutAt(layout, p)) :
                Continue(base, [calls EXCEPT ![p] = v], Append(order, p))
    /\ UNCHANGED <<given, layout, base, pageProps, isWrapped, hasProvider, currCtx, tree, read>>

\* One user getData rejects.
RejectGetData ==
    /\ pc = "fetching"
    /\ \E p \in DOMAIN calls :
          /\ calls[p] = Pending
          /\ Continue(base, [calls EXCEPT ![p] = Rejected], Append(order, p))
    /\ UNCHANGED <<given, layout, base, pageProps, isWrapped, hasProvider, currCtx, tree, read>>

\* The page exports the user's own fetch function, not wrapped (or none).
CallUnwrappedFetch ==
    /\ pc = "ready"
    /\ \E b \in BaseResults : base' = b /\ result' = b
    /\ pc' = "fetched"
    /\ UNCHANGED <<given, layout, thrown, calls, order, fetched, pageProps, isWrapped, hasProvider, currCtx, tree, read>>

\* the props the host hands to the page from what the fetch function returned
HostPageProps(r) == Coalesce(Get(Coalesce(r, EmptyObj), "props"), EmptyObj)

\* The host is done with the fetch and renders; t is what the render gives.
\* The locals of the fetch call (base, result, order) are gone by then: the
\* host keeps the props only.
Rendered(t, wrapped, provider, curr) ==
    /\ pc = "fetched"
    /\ pageProps' = HostPageProps(result)
    /\ isWrapped' = wrapped
    /\ hasProvider' = provider
    /\ currCtx' = curr
    /\ tree' = t
    /\ thrown' = IF IsError(t) THEN t ELSE thrown
    /\ pc' = "rendered"
    /\ base' = NoValue /\ result' = NoValue /\ order' = <<>>
    /\ UNCHANGED <<given, layout, calls, fetched, read>>

\* _app renders <LayoutProvider> with the page wrapPage returned.
RenderInProvider ==
    \E curr \in EnclosingContexts :
        Rendered(LayoutProvider(layout, HostPageProps(result), curr), TRUE, TRUE, curr)

\* _app renders the page wrapPage returned, without LayoutProvider.
RenderOutsideProvider ==
    Rendered(WrappedPage(FALSE, HostPageProps(result)), TRUE, FALSE, <<>>)

\* _app renders <LayoutProvider> with a page that was not given to wrapPage:
\* RenderLayout finds no getLayout and renders the page with its props.
RenderUnwrappedPage ==
    \E curr \in EnclosingContexts :
        Rendered([t |-> "page", props |-> HostPageProps(result)], FALSE, TRUE, curr)

\* A component calls l.useData(): a descendant of the page, or the layout's
\* own getLayout, which runs in RenderLayout's render.
UseData ==
    /\ pc = "rendered"
    /\ ~IsError(tree)
    /\ \E l \in UserLayouts, site \in {"descendant", "getLayout"}, pathname \in Pathnames :
          /\ site = "getLayout" =>
                \E i \in 1..Len(Wrappers(tree)) : Wrappers(tree)[i].name = l.options.name
          /\ read' = [layout |-> l, site |-> site, pathname |-> pathname,
                      outcome |-> useData(l, IF site = "descendant"
                                             THEN PageContext(tree, currCtx)
                                             ELSE currCtx, pathname)]
    /\ UNCHANGED <<pc, given, layout, thrown, base, calls, order, fetched, result, pageProps, isWrapped, hasProvider, currCtx, tree>>

Next ==
    \/ UseLayout
    \/ CombineLayouts
    \/ NestLayouts
    \/ CallWrappedFetch
    \/ BaseResolves
    \/ BaseRejects
    \/ ResolveGetData
    \/ RejectGetData
    \/ CallUnwrappedFetch
    \/ RenderInProvider
    \/ RenderOutsideProvider
    \/ RenderUnwrappedPage
    \/ UseData

Spec == Init /\ [][Next]_vars

(***************************************************************************)
(* Properties.                                                             *)
(***************************************************************************)
\* the wrapped fetch of the page has resolved
FetchResolved == pc = "fetched" /\ fetched # NoValue

\* the entries of an object, except those under the keys ks
Without(o, ks) == [k \in DOMAIN Spread(o) \ ks |-> Spread(o)[k]]

\* C1: the object a wrapped fetch resolves to has under props exactly the
\* base props plus one entry under the layout's key that equals what
\* getData resolved to (null without getData), and every other field of the
\* base result unchanged.
C1_WrappedFetchStoresFetchResult ==
    FetchResolved =>
        LET b == Coalesce(base, EmptyObj)
            baseProps == Coalesce(Get(b, "props"), EmptyObj)
            props == Get(result, "props")
        IN  /\ Without(result, {"props"}) = Without(b, {"props"})
            /\ props.t = "object"
            /\ Without(props, {layout.layoutKey}) = Without(baseProps, {layout.layoutKey})
            /\ layout.layoutKey \in DOMAIN props.m
            /\ props.m[layout.layoutKey] =
                   (IF layout.options.getData = "none" THEN Null ELSE fetched)

\* a descendant of the page, rendered by the provider from the props of the
\* wrapped fetch, has called useData of the page's own layout
RoundTripRead ==
    /\ pc = "rendered"
    /\ read # NoValue
    /\ fetched # NoValue
    /\ tree.t = "provider"
    /\ read.site = "descendant"
    /\ read.layout = layout
    /\ layout.options.getData = "user"

\* C2: with wrapPage and the wrapped fetch both applied and the page
\* rendered by the provider, useData() in a descendant of the page returns
\* exactly what the layout's getData resolved to.
C2_UseDataReturnsFetchResult ==
    RoundTripRead => read.outcome = fetched

\* the names that occur more than once in a list of names
RepeatedNames(names) ==
    {names[i] : i \in {j \in 1..Len(names) : \E k \in 1..Len(names) : k # j /\ names[k] = names[j]}}

\* the sequences that list every element of the set S once
Listings(S) == {q \in [1..Cardinality(S) -> S] : \A x \in S : \E i \in DOMAIN q : q[i] = x}

\* C3: combineLayouts given a list with a repeated name throws
\* COMBINED_LAYOUT_NAME_CONFLICT with a message that lists every repeated
\* name once, before any getData or getLayout runs and without returning a
\* layout.
C3_NameConflictListsDuplicates ==
    (given # <<>> /\ RepeatedNames(LayoutNames(given)) # {}) =>
        /\ pc = "failed"
        /\ thrown.t = "error"
        /\ thrown.code = "COMBINED_LAYOUT_NAME_CONFLICT"
        /\ \E q \in Listings(RepeatedNames(LayoutNames(given))) :
               thrown.fields.message = ConflictPrefix \o Join(q, ", ")
        /\ calls = <<>> /\ tree = NoValue /\ layout = NoLayout

RECURSIVE ConstituentResult(_, _)
\* what the getData of the layout at path resolved to, read off the
\* invocations: a user's result, null without getData, and for a composite
\* one entry per constituent under the constituent's own key
ConstituentResult(l, path) ==
    IF l.options.getData = "user" THEN calls[path]
    ELSE IF l.options.getData = "none" THEN Null
    ELSE LET n == Len(l.options.layouts)
             keyOf(i) == "__layout:" \o l.options.layouts[i].options.name
         IN  Obj([k \in {keyOf(i) : i \in 1..n} |->
                    LET i == CHOOSE j \in 1..n : keyOf(j) = k
                    IN  ConstituentResult(l.options.layouts[i], Append(path, i))])

IsComposite(l) == l.t = "layout" /\ l.options.getData = "combined"

\* C4: the composite getData resolves, whatever the order in which the
\* constituents' getData resolved, to the object with exactly one entry per
\* constituent, under the constituent's own key, holding the constituent's
\* result (null without getData).
C4_CompositeFetchMergesByKey ==
    (FetchResolved /\ IsComposite(layout)) =>
        /\ fetched = ConstituentResult(layout, <<>>)
        /\ Cardinality(DOMAIN fetched.m) = Len(layout.options.layouts)
        /\ \A p \in DOMAIN calls : calls[p] \notin {Pending, Rejected}

\* C4 witness: a composite fetch has resolved in which the second
\* constituent's getData resolved before the first's, to another value.
C4_Witness ==
    /\ FetchResolved
    /\ IsComposite(layout)
    /\ order = << <<2>>, <<1>> >>
    /\ calls[<<1>>] # calls[<<2>>]
    /\ fetched = ConstituentResult(layout, <<>>)

\* C9: once a constituent's getData has rejected, the page's fetch function
\* has rejected: it has returned no result, so no props reach the page.
C9_RejectionFailsWholeFetch ==
    (\E p \in DOMAIN calls : calls[p] = Rejected) =>
        /\ pc = "failed"
        /\ thrown = UserRejection
        /\ fetched = NoValue
        /\ result = NoValue
        /\ pageProps = NoValue
        /\ tree = NoValue

\* C9 witness: in a composite one constituent's getData has resolved, then
\* another's has rejected, and the fetch has failed.
C9_Witness ==
    /\ pc = "failed"
    /\ IsComposite(layout)
    /\ Len(order) >= 2
    /\ calls[order[1]] \notin {Pending, Rejected}
    /\ calls[order[Len(order)]] = Rejected

RECURSIVE ExpectedWrappers(_, _, _)
\* the wrappers around the page, outermost first, that nesting the
\* constituents of l from position i on in declaration order gives: each
\* constituent's wrapper with the entry of data under the constituent's key
ExpectedWrappers(l, data, i) ==
    IF i > Len(l.options.layouts) THEN <<>>
    ELSE LET c == l.options.layouts[i]
             slice == Get(data, "__layout:" \o c.options.name)
             own == IF c.options.getLayout = "user"
                    THEN <<[name |-> c.options.name, data |-> slice]>>
                    ELSE IF c.options.getLayout = "combined"
                    THEN ExpectedWrappers(c, slice, 1)
                    ELSE <<>>
         IN  own \o ExpectedWrappers(l, data, i + 1)

RECURSIVE Innermost(_)
\* what the wrappers of a tree are around
Innermost(e) == IF e.t \in {"provider", "wrapper"} THEN Innermost(e.child) ELSE e

\* the page's layout's slice of the props, and the other props
Slice == Get(pageProps, layout.layoutKey)
OtherProps == Obj(Without(pageProps, {layout.layoutKey}))

\* the provider has rendered the page wrapPage returned
DispatchRan == pc = "rendered" /\ isWrapped /\ hasProvider

\* C5: the composite getLayout nests the constituents' wrappers in
\* declaration order, the first outermost, around the page; each wrapper is
\* there once, with the entry of the composite's data under the
\* constituent's own key; a constituent without getLayout adds nothing.
C5_CompositeNestsInDeclarationOrder ==
    (DispatchRan /\ IsComposite(layout) /\ ~Nullish(Slice)) =>
        /\ ~IsError(tree)
        /\ Wrappers(tree) = ExpectedWrappers(layout, Slice, 1)
        /\ Innermost(tree) = [t |-> "page", props |-> OtherProps]
        /\ IsFlat(layout) =>
              \A i \in 1..Len(layout.options.layouts) :
                  Cardinality({j \in 1..Len(Wrappers(tree)) :
                                  Wrappers(tree)[j].name = layout.options.layouts[i].options.name})
                    = (IF layout.options.layouts[i].options.getLayout = "user" THEN 1 ELSE 0)

\* C5 witness: combineLayouts(a, b) has rendered a page: a's wrapper, with
\* a's data, is around b's wrapper, which is around the page.
C5_Witness ==
    /\ DispatchRan
    /\ IsComposite(layout)
    /\ LayoutNames(layout.options.layouts) = <<"a", "b">>
    /\ tree.t = "provider"
    /\ tree.child.t = "wrapper" /\ tree.child.name = "a" /\ tree.child.data = Num(1)
    /\ tree.child.child.t = "wrapper" /\ tree.child.child.name = "b"
    /\ tree.child.child.child.t = "page"

\* what the page's layout's getLayout makes of the page and the slice
ExpectedOutput ==
    IF layout.options.getLayout = "user"
    THEN <<[name |-> layout.options.name, data |-> Slice]>>
    ELSE IF layout.options.getLayout = "combined"
    THEN ExpectedWrappers(layout, Slice, 1)
    ELSE <<>>

ProviderMissing ==
    [t |-> "error", code |-> "LAYOUT_PROVIDER_NOT_IMPLEMENTED",
     fields |-> [errorContext |-> "wrapPage"]]

\* the composite getLayout reads data[layoutKey] of a slice that is missing
CompositeWithoutSlice ==
    /\ IsComposite(layout)
    /\ Nullish(Slice)
    /\ \E i \in 1..Len(layout.options.layouts) :
          layout.options.layouts[i].options.getLayout # "none"

ReadContext == IF read.site = "descendant" THEN PageContext(tree, currCtx) ELSE currCtx
ReadKey == "__layout:" \o read.layout.options.name

\* a context holds no slice under a key
NoSlice(ctx, key) == key \notin DOMAIN ctx \/ ctx[key] = Undefined

DataUnavailable ==
    [t |-> "error", code |-> "DATA_UNAVAILABLE",
     fields |-> [errorContext |-> "useData", location |-> read.pathname,
                 layoutName |-> read.layout.options.name]]

\* C7: useData() fails with DATA_UNAVAILABLE, naming the layout and the
\* router's pathname, whenever the context at the call holds no slice under
\* the layout's key: when the page was not given to wrapPage, when the fetch
\* function was not wrapped, and when the call is made in the layout's own
\* getLayout (no enclosing provider having published the key).
C7_UseDataFailsWithoutSlice ==
    (pc = "rendered" /\ read # NoValue) =>
        /\ NoSlice(ReadContext, ReadKey) => read.outcome = DataUnavailable
        /\ (~isWrapped /\ NoSlice(currCtx, ReadKey)) => read.outcome = DataUnavailable
        /\ (fetched = NoValue /\ NoSlice(currCtx, ReadKey)) => read.outcome = DataUnavailable
        /\ (read.site = "getLayout" /\ NoSlice(currCtx, ReadKey))
              => read.outcome = DataUnavailable

\* C7 witness: layout a's page and fetch are both wrapped and a's slice is
\* published to the page, yet useData() called in a's getLayout has failed.
C7_Witness ==
    /\ DispatchRan
    /\ read # NoValue
    /\ read.layout = layout
    /\ read.site = "getLayout"
    /\ fetched = Num(1)
    /\ PageContext(tree, currCtx)[ReadKey] = Num(1)
    /\ read.outcome = DataUnavailable

\* the constituents' keys
ConstituentKeys(l) ==
    {"__layout:" \o l.options.layouts[i].options.name : i \in 1..Len(l.options.layouts)}

\* C8: the render dispatch publishes the enclosing context with only the
\* layout's own entries changed: for a layout built by createLayout itself
\* the entry under its key is its slice of the props; for a composite the
\* entry under each constituent's key is that constituent's slice; every
\* other entry is as in the enclosing context.
C8_DispatchPublishesOwnEntries ==
    (DispatchRan /\ tree.t = "provider") =>
        IF ~IsComposite(layout)
        THEN tree.value = [k \in DOMAIN currCtx \cup {layout.layoutKey} |->
                              IF k = layout.layoutKey THEN Slice ELSE currCtx[k]]
        ELSE Slice.t = "object" =>
                tree.value = [k \in DOMAIN currCtx \cup ConstituentKeys(layout) |->
                                 IF k \in ConstituentKeys(layout) THEN Get(Slice, k)
                                 ELSE currCtx[k]]

\* the paths of the layouts of l that createLayout built for the application
RECURSIVE LeafPaths(_, _)
LeafPaths(l, path) ==
    IF l.options.getData # "combined" THEN {path}
    ELSE UNION {LeafPaths(l.options.layouts[i], Append(path, i)) :
                    i \in 1..Len(l.options.layouts)}

\* C10: after the wrapped fetch and the render dispatch of a composite,
\* nested or not, the context of the page holds for every leaf layout an
\* entry under the leaf's own key equal to what the leaf's getData resolved
\* to (null without getData).
C10_LeafDataReadable ==
    (DispatchRan /\ tree.t = "provider" /\ IsComposite(layout) /\ fetched # NoValue) =>
        \A p \in LeafPaths(layout, <<>>) :
            LET leaf == LayoutAt(layout, p) IN
            /\ leaf.layoutKey \in DOMAIN PageContext(tree, currCtx)
            /\ PageContext(tree, currCtx)[leaf.layoutKey] = ConstituentResult(leaf, p)

====
